---- MODULE Spec2Model ----
(***************************************************************************)
(* Model of the SolMate contracts:                                         *)
(*   - SolMateMarket (contract/contracts/SolMateMarket.sol): offers,       *)
(*     createOffer / setOfferStatus / updateOffer / buyEnergy;             *)
(*   - SolarToken (unnamed/part_001): mintEnergy / useEnergy on top of an  *)
(*     ERC20 balance map;                                                  *)
(*   - the offline simulation page (unnamed/part_003), which runs in the   *)
(*     browser without the contracts (specification SimSpec).              *)
(* One step of the model is one transaction.  A transaction that reverts   *)
(* leaves the chain state as it was (EVM semantics of require and of       *)
(* checked arithmetic); `last` records the call and how it ended.          *)
(* Amounts are scaled down: 1 model unit of token = 1 ether of SLR.        *)
(***************************************************************************)
EXTENDS Integers, Sequences, FiniteSets, TLC

VARIABLES offers, nextOfferId, funds, events,
          balances, totalSupply, tokenPrice, lastCloudPct,
          last, pre,
          tokens, supply, demo

vars == <<offers, nextOfferId, funds, events,
          balances, totalSupply, tokenPrice, lastCloudPct, last, pre,
          tokens, supply, demo>>

marketVars == <<offers, nextOfferId, funds>>
tokenVars == <<balances, totalSupply, tokenPrice, lastCloudPct>>
chainVars == <<offers, nextOfferId, funds, events,
               balances, totalSupply, tokenPrice, lastCloudPct, last, pre>>
simVars == <<tokens, supply, demo>>

----------------------------------------------------------------------------
(* Bounds of the model *)

MaxOffers == 2
MaxEvents == 3

(* Program constants *)

(* SCALE: the basis-point denominator.  baseMint: 100 ether, in whole     *)
(* tokens.  UintMax: the largest value of a word; the contracts' words are *)
(* 256 bits wide, the model's are 30 bits wide, and a product beyond the   *)
(* word reverts in both.                                                   *)
SCALE == 10000
baseMint == 100
UintMax == 1073741823

----------------------------------------------------------------------------
(* Input domains *)

Users == {"u1", "u2"}
ZERO == "0x0"
MARKET == "market"
Accounts == Users \cup {MARKET}

OfferIds == 0..MaxOffers
Prices == {0, 1, 100000}
NewKWhs == {0, 1, 2}
BuyKWhs == {0, 1, 2}
Factors == {0, 15000}
Values == {0, 1, 2, 3}
InitFunds == {3}
Weathers == {[desc |-> "few clouds", latE6 |-> 37803900, lonE6 |-> -122401100, cloudPercent |-> 20]}
W0 == CHOOSE w \in Weathers : TRUE

InitialPrices == {1, 100}
MintFactors == {0, 5000, 20000}
Clouds == {100, 101}
Amounts == {0, 50, 250}

----------------------------------------------------------------------------
(* uint256 checked arithmetic (Solidity 0.8): a product that does not fit  *)
(* in a word reverts the call.                                             *)

(* Mutant of MulOverflows: the limit is that of a word one bit wider. *)
MulOverflows_WiderWord(a, b) == b # 0 /\ a > (2 * UintMax + 1) \div b

MulOverflows(a, b) == b # 0 /\ a > UintMax \div b

EmptyOffer == [seller |-> ZERO, basePriceWeiPerKWh |-> 0, availableKWh |-> 0, active |-> FALSE]

(* The market as one value: what a call reads and what it leaves. *)
Market == [offers |-> offers, nextOfferId |-> nextOfferId, funds |-> funds, events |-> events]

(* Results of a call: the state it leaves and how it ended *)
Ok(m) == [m |-> m, res |-> "ok", nres |-> "none"]

(* Mutant of Revert: the effects the call had before it failed are kept. *)
Revert_KeepEffects(before, cur, reason) == [m |-> cur, res |-> reason, nres |-> "none"]

(* A failed require: the call ends with `reason` and every effect it had  *)
(* so far (`cur`) is undone, the state is `pre` again.                     *)
Revert(before, cur, reason) == [m |-> before, res |-> reason, nres |-> "none"]

(* Mutant of onlySeller: only checks that the offer exists. *)
onlySeller_AnyCaller(m, sender, offerId) == m.offers[offerId].seller # ZERO

onlySeller(m, sender, offerId) == sender = m.offers[offerId].seller

(* Event records, all of one shape: the fields an event does not carry   *)
(* hold a filler.                                                          *)
NoEvent == [type |-> "none", offerId |-> 0, who |-> ZERO, price |-> 0, qty |-> 0,
            active |-> FALSE, paid |-> 0, factor |-> 0, w |-> W0, clouds |-> 0]

OfferCreated(offerId, seller, price, kWh) ==
    [NoEvent EXCEPT !.type = "OfferCreated", !.offerId = offerId, !.who = seller,
                    !.price = price, !.qty = kWh]

OfferUpdated(offerId, price, kWh, active) ==
    [NoEvent EXCEPT !.type = "OfferUpdated", !.offerId = offerId, !.price = price,
                    !.qty = kWh, !.active = active]

EnergyPurchased(offerId, buyer, kWh, paid, factor, w) ==
    [NoEvent EXCEPT !.type = "EnergyPurchased", !.offerId = offerId, !.who = buyer,
                    !.qty = kWh, !.paid = paid, !.factor = factor, !.w = w]

EnergyMinted(user, minted, factorBps, clouds, newPrice) ==
    [NoEvent EXCEPT !.type = "EnergyMinted", !.who = user, !.qty = minted,
                    !.factor = factorBps, !.clouds = clouds, !.price = newPrice]

EnergyUsed(user, burned, newPrice) ==
    [NoEvent EXCEPT !.type = "EnergyUsed", !.who = user, !.qty = burned, !.price = newPrice]

(* Mutant of createOffer: the counter is read but not advanced. *)
createOffer_ReusesId(m, sender, basePriceWeiPerKWh, totalKWh) ==
    IF ~(basePriceWeiPerKWh > 0) THEN Revert(m, m, "price>0")
    ELSE IF ~(totalKWh > 0) THEN Revert(m, m, "kWh>0")
    ELSE LET offerId == m.nextOfferId IN
         Ok([m EXCEPT !.offers[offerId] = [seller |-> sender,
                                           basePriceWeiPerKWh |-> basePriceWeiPerKWh,
                                           availableKWh |-> totalKWh,
                                           active |-> TRUE],
                      !.events = Append(@, OfferCreated(offerId, sender, basePriceWeiPerKWh, totalKWh))])

createOffer(m, sender, basePriceWeiPerKWh, totalKWh) ==
    IF ~(basePriceWeiPerKWh > 0) THEN Revert(m, m, "price>0")
    ELSE IF ~(totalKWh > 0) THEN Revert(m, m, "kWh>0")
    ELSE LET offerId == m.nextOfferId IN
         Ok([m EXCEPT !.nextOfferId = @ + 1,
                      !.offers[offerId] = [seller |-> sender,
                                           basePriceWeiPerKWh |-> basePriceWeiPerKWh,
                                           availableKWh |-> totalKWh,
                                           active |-> TRUE],
                      !.events = Append(@, OfferCreated(offerId, sender, basePriceWeiPerKWh, totalKWh))])

(* Mutant of setOfferStatus: deactivating an offer also clears its stock. *)
setOfferStatus_ClearsStock(m, sender, offerId, active) ==
    IF ~onlySeller(m, sender, offerId) THEN Revert(m, m, "not seller")
    ELSE LET left == IF active THEN m.offers[offerId].availableKWh ELSE 0 IN
         Ok([m EXCEPT !.offers[offerId].active = active,
                      !.offers[offerId].availableKWh = left,
                      !.events = Append(@, OfferUpdated(offerId,
                                                        m.offers[offerId].basePriceWeiPerKWh,
                                                        left, active))])

(* Mutant of setOfferStatus: taking an offer off sale deletes its record. *)
setOfferStatus_Deletes(m, sender, offerId, active) ==
    IF ~onlySeller(m, sender, offerId) THEN Revert(m, m, "not seller")
    ELSE Ok([m EXCEPT !.offers[offerId] = IF active THEN [@ EXCEPT !.active = TRUE]
                                          ELSE EmptyOffer,
                      !.events = Append(@, OfferUpdated(offerId,
                                                        m.offers[offerId].basePriceWeiPerKWh,
                                                        m.offers[offerId].availableKWh,
                                                        active))])

setOfferStatus(m, sender, offerId, active) ==
    IF ~onlySeller(m, sender, offerId) THEN Revert(m, m, "not seller")
    ELSE Ok([m EXCEPT !.offers[offerId].active = active,
                      !.events = Append(@, OfferUpdated(offerId,
                                                        m.offers[offerId].basePriceWeiPerKWh,
                                                        m.offers[offerId].availableKWh,
                                                        active))])

(* Mutant of updateOffer: an update puts the offer back on sale. *)
updateOffer_Reactivates(m, sender, offerId, newBasePriceWeiPerKWh, newAvailableKWh) ==
    IF ~onlySeller(m, sender, offerId) THEN Revert(m, m, "not seller")
    ELSE IF ~(newBasePriceWeiPerKWh > 0) THEN Revert(m, m, "price>0")
    ELSE IF ~(newAvailableKWh > 0) THEN Revert(m, m, "kWh>0")
    ELSE Ok([m EXCEPT !.offers[offerId].basePriceWeiPerKWh = newBasePriceWeiPerKWh,
                      !.offers[offerId].availableKWh = newAvailableKWh,
                      !.offers[offerId].active = TRUE,
                      !.events = Append(@, OfferUpdated(offerId, newBasePriceWeiPerKWh,
                                                        newAvailableKWh, TRUE))])

(* Mutant of updateOffer: the update is not logged. *)
updateOffer_NoEvent(m, sender, offerId, newBasePriceWeiPerKWh, newAvailableKWh) ==
    IF ~onlySeller(m, sender, offerId) THEN Revert(m, m, "not seller")
    ELSE IF ~(newBasePriceWeiPerKWh > 0) THEN Revert(m, m, "price>0")
    ELSE IF ~(newAvailableKWh > 0) THEN Revert(m, m, "kWh>0")
    ELSE Ok([m EXCEPT !.offers[offerId].basePriceWeiPerKWh = newBasePriceWeiPerKWh,
                      !.offers[offerId].availableKWh = newAvailableKWh])

(* Mutant of updateOffer: only the quantity is overwritten. *)
updateOffer_KeepsPrice(m, sender, offerId, newBasePriceWeiPerKWh, newAvailableKWh) ==
    IF ~onlySeller(m, sender, offerId) THEN Revert(m, m, "not seller")
    ELSE IF ~(newBasePriceWeiPerKWh > 0) THEN Revert(m, m, "price>0")
    ELSE IF ~(newAvailableKWh > 0) THEN Revert(m, m, "kWh>0")
    ELSE Ok([m EXCEPT !.offers[offerId].availableKWh = newAvailableKWh,
                      !.events = Append(@, OfferUpdated(offerId, newBasePriceWeiPerKWh,
                                                        newAvailableKWh,
                                                        m.offers[offerId].active))])

(* Mutant of updateOffer: the new quantity is not checked. *)
updateOffer_AnyKWh(m, sender, offerId, newBasePriceWeiPerKWh, newAvailableKWh) ==
    IF ~onlySeller(m, sender, offerId) THEN Revert(m, m, "not seller")
    ELSE IF ~(newBasePriceWeiPerKWh > 0) THEN Revert(m, m, "price>0")
    ELSE Ok([m EXCEPT !.offers[offerId].basePriceWeiPerKWh = newBasePriceWeiPerKWh,
                      !.offers[offerId].availableKWh = newAvailableKWh,
                      !.events = Append(@, OfferUpdated(offerId, newBasePriceWeiPerKWh,
                                                        newAvailableKWh,
                                                        m.offers[offerId].active))])

updateOffer(m, sender, offerId, newBasePriceWeiPerKWh, newAvailableKWh) ==
    IF ~onlySeller(m, sender, offerId) THEN Revert(m, m, "not seller")
    ELSE IF ~(newBasePriceWeiPerKWh > 0) THEN Revert(m, m, "price>0")
    ELSE IF ~(newAvailableKWh > 0) THEN Revert(m, m, "kWh>0")
    ELSE Ok([m EXCEPT !.offers[offerId].basePriceWeiPerKWh = newBasePriceWeiPerKWh,
                      !.offers[offerId].availableKWh = newAvailableKWh,
                      !.events = Append(@, OfferUpdated(offerId, newBasePriceWeiPerKWh,
                                                        newAvailableKWh,
                                                        m.offers[offerId].active))])

(* What the recipient of the payment does when it is handed control: it   *)
(* may call back into the market once (`re`), and it accepts or rejects    *)
(* the payment (`ok`).                                                     *)
NoCall == [op |-> "none", id |-> 0, price |-> 0, kWh |-> 0, factor |-> 0, value |-> 0,
           active |-> FALSE, accept |-> TRUE]
Accept == [re |-> NoCall, ok |-> TRUE]
Reject == [re |-> NoCall, ok |-> FALSE]

(* Mutant of FinalCost: the division rounds up. *)
FinalCost_RoundUp(basePriceWeiPerKWh, kWh, weatherFactorBps) ==
    ((basePriceWeiPerKWh * kWh) * weatherFactorBps + (SCALE - 1)) \div SCALE

FinalCost(basePriceWeiPerKWh, kWh, weatherFactorBps) ==
    ((basePriceWeiPerKWh * kWh) * weatherFactorBps) \div SCALE

RECURSIVE buyEnergy(_, _, _, _, _, _, _, _)
RECURSIVE Dispatch(_, _, _)

(* Mutant of SellerCall: the result of the payment is not looked at; a    *)
(* rejected payment leaves the value with the market.                       *)
SellerCall_Unchecked(m, seller, value, hook) ==
    IF hook.ok
    THEN LET paid == [m EXCEPT !.funds[MARKET] = @ - value, !.funds[seller] = @ + value]
             r == IF hook.re.op = "none" THEN Ok(paid) ELSE Dispatch(paid, seller, hook.re)
         IN  [m |-> r.m, ok |-> TRUE, nres |-> IF hook.re.op = "none" THEN "none" ELSE r.res]
    ELSE [m |-> m, ok |-> TRUE, nres |-> "none"]

(* Mutant of SellerCall: half of the value, rounded down, is forwarded and *)
(* the rest stays with the market.                                         *)
SellerCall_ForwardsHalf(m, seller, value, hook) ==
    LET paid == [m EXCEPT !.funds[MARKET] = @ - value \div 2, !.funds[seller] = @ + value \div 2]
        r == IF hook.re.op = "none" THEN Ok(paid) ELSE Dispatch(paid, seller, hook.re)
    IN  [m |-> r.m, ok |-> hook.ok, nres |-> IF hook.re.op = "none" THEN "none" ELSE r.res]

(* The payment `ofr.seller.call{value: msg.value}("")`: the seller is     *)
(* credited, then runs its own code with the market in state m.            *)
SellerCall(m, seller, value, hook) ==
    LET paid == [m EXCEPT !.funds[MARKET] = @ - value, !.funds[seller] = @ + value]
        r == IF hook.re.op = "none" THEN Ok(paid) ELSE Dispatch(paid, seller, hook.re)
    IN  [m |-> r.m, ok |-> hook.ok, nres |-> IF hook.re.op = "none" THEN "none" ELSE r.res]

Debit(availableKWh, kWh) == availableKWh - kWh

(* Mutant of ValidKWh: the upper limit is not checked. *)
ValidKWh_NoUpperLimit(kWh, availableKWh) == kWh > 0

ValidKWh(kWh, availableKWh) == kWh > 0 /\ kWh <= availableKWh

buyEnergy(m, sender, offerId, kWh, weatherFactorBps, w, value, hook) ==
    IF value > m.funds[sender] THEN Revert(m, m, "no funds")
    ELSE
    LET ofr == m.offers[offerId]
        m0 == [m EXCEPT !.funds[sender] = @ - value, !.funds[MARKET] = @ + value]
    IN  IF ~ofr.active THEN Revert(m, m0, "inactive")
        ELSE IF ~ValidKWh(kWh, ofr.availableKWh) THEN Revert(m, m0, "invalid kWh")
        ELSE IF ~(weatherFactorBps > 0) THEN Revert(m, m0, "bad factor")
        ELSE IF MulOverflows(ofr.basePriceWeiPerKWh, kWh) THEN Revert(m, m0, "panic")
        ELSE IF MulOverflows(ofr.basePriceWeiPerKWh * kWh, weatherFactorBps)
             THEN Revert(m, m0, "panic")
        ELSE LET finalCost == FinalCost(ofr.basePriceWeiPerKWh, kWh, weatherFactorBps) IN
             IF ~(value = finalCost) THEN Revert(m, m0, "wrong value")
             ELSE LET m1 == [m0 EXCEPT !.offers[offerId].availableKWh = Debit(@, kWh)]
                      c == SellerCall(m1, ofr.seller, value, hook)
                  IN  IF ~c.ok THEN Revert(m, c.m, "pay failed")
                      ELSE [m |-> [c.m EXCEPT !.events =
                                       Append(@, EnergyPurchased(offerId, sender, kWh, value,
                                                                 weatherFactorBps, w))],
                            res |-> "ok", nres |-> c.nres]

(* A call made by `sender` from inside the payment. *)
Dispatch(m, sender, c) ==
    CASE c.op = "createOffer" -> createOffer(m, sender, c.price, c.kWh)
      [] c.op = "setOfferStatus" -> setOfferStatus(m, sender, c.id, c.active)
      [] c.op = "updateOffer" -> updateOffer(m, sender, c.id, c.price, c.kWh)
      [] c.op = "buyEnergy" -> buyEnergy(m, sender, c.id, c.kWh, c.factor, W0, c.value,
                                         [re |-> NoCall, ok |-> c.accept])
      [] OTHER -> Ok(m)

----------------------------------------------------------------------------
(* SolarToken.  _mint and _burn are the ERC20 library's: they move         *)
(* totalSupply and the holder's balance together.  The library's own       *)
(* Transfer log records are not part of this model.                        *)

Token == [balances |-> balances, totalSupply |-> totalSupply, tokenPrice |-> tokenPrice,
          lastCloudPct |-> lastCloudPct, events |-> events]

_mint(t, account, value) ==
    [t EXCEPT !.totalSupply = @ + value, !.balances[account] = @ + value]

(* Mutant of _burn: the supply is not reduced. *)
_burn_BalanceOnly(t, account, value) == [t EXCEPT !.balances[account] = @ - value]

_burn(t, account, value) ==
    [t EXCEPT !.balances[account] = @ - value, !.totalSupply = @ - value]

(* Mutant of MintPrice: the price follows the factor instead of its inverse. *)
MintPrice_Direct(price, weatherFactorBps) == (price * weatherFactorBps) \div 10000

MintPrice(price, weatherFactorBps) == (price * 10000) \div weatherFactorBps

(* Mutant of mintEnergy: the cloud percentage is not checked. *)
mintEnergy_AnyClouds(t, sender, weatherFactorBps, clouds) ==
    IF ~(weatherFactorBps > 0) THEN Revert(t, t, "factor>0")
    ELSE IF MulOverflows(baseMint, weatherFactorBps) THEN Revert(t, t, "panic")
    ELSE LET amt == (baseMint * weatherFactorBps) \div 10000
             t1 == _mint(t, sender, amt)
         IN  IF t.totalSupply > UintMax - amt THEN Revert(t, t, "panic")
             ELSE IF MulOverflows(t.tokenPrice, 10000) THEN Revert(t, t1, "panic")
             ELSE LET newPrice == MintPrice(t.tokenPrice, weatherFactorBps) IN
                  Ok([t1 EXCEPT !.tokenPrice = newPrice,
                                !.lastCloudPct = clouds,
                                !.events = Append(@, EnergyMinted(sender, amt, weatherFactorBps,
                                                                  clouds, newPrice))])

mintEnergy(t, sender, weatherFactorBps, clouds) ==
    IF ~(weatherFactorBps > 0) THEN Revert(t, t, "factor>0")
    ELSE IF ~(clouds <= 100) THEN Revert(t, t, "clouds<=100")
    ELSE IF MulOverflows(baseMint, weatherFactorBps) THEN Revert(t, t, "panic")
    ELSE LET amt == (baseMint * weatherFactorBps) \div 10000
             t1 == _mint(t, sender, amt)
         IN  IF t.totalSupply > UintMax - amt THEN Revert(t, t, "panic")
             ELSE IF MulOverflows(t.tokenPrice, 10000) THEN Revert(t, t1, "panic")
             ELSE LET newPrice == MintPrice(t.tokenPrice, weatherFactorBps) IN
                  Ok([t1 EXCEPT !.tokenPrice = newPrice,
                                !.lastCloudPct = clouds,
                                !.events = Append(@, EnergyMinted(sender, amt, weatherFactorBps,
                                                                  clouds, newPrice))])

(* Mutant of BurnPrice: the bump is taken off the price. *)
BurnPrice_Lowers(price, pct) == (price * (10000 - pct \div 2)) \div 10000

(* Mutant of BurnPrice: the bump is the whole percentage, not half of it. *)
BurnPrice_FullRate(price, pct) == (price * (10000 + pct)) \div 10000

BurnPrice(price, pct) == (price * (10000 + pct \div 2)) \div 10000

useEnergy(t, sender, amount) ==
    IF ~(t.balances[sender] >= amount) THEN Revert(t, t, "insufficient")
    ELSE LET supplyBefore == t.totalSupply
             t1 == _burn(t, sender, amount)
         IN  IF MulOverflows(amount, 10000) THEN Revert(t, t1, "panic")
             ELSE IF supplyBefore = 0 THEN Revert(t, t1, "panic")
             ELSE LET pct == (amount * 10000) \div supplyBefore IN
                  IF MulOverflows(t.tokenPrice, 10000 + pct \div 2) THEN Revert(t, t1, "panic")
                  ELSE LET newPrice == BurnPrice(t.tokenPrice, pct) IN
                       Ok([t1 EXCEPT !.tokenPrice = newPrice,
                                     !.events = Append(@, EnergyUsed(sender, amount, newPrice))])

----------------------------------------------------------------------------
(* The state machine: one transaction per step. *)

NoLast == [op |-> "init", sender |-> ZERO, id |-> 0, price |-> 0, kWh |-> 0, factor |-> 0,
           value |-> 0, active |-> FALSE, w |-> W0, hook |-> Accept, amount |-> 0,
           clouds |-> 0, res |-> "ok", nres |-> "none"]

Snapshot == [m |-> Market, t |-> Token]

(* The offline simulation page: no Quick Demo is under way. *)
NoDemo == [pc |-> "idle", tokens |-> 0, supply |-> 0]

Init ==
    /\ offers = [i \in OfferIds |-> EmptyOffer]
    /\ nextOfferId = 0
    /\ \E f \in InitFunds : funds = [a \in Accounts |-> IF a = MARKET THEN 0 ELSE f]
    /\ events = << >>
    /\ balances = [u \in Users |-> 0]
    /\ totalSupply = 0
    /\ tokenPrice \in InitialPrices
    /\ lastCloudPct = 0
    /\ last = NoLast
    /\ pre = Snapshot
    /\ tokens = 0
    /\ supply = 0
    /\ demo = NoDemo

(* The calls the recipient of a payment may make back into the market. *)
NestedCalls ==
    {[NoCall EXCEPT !.op = "createOffer", !.price = 1, !.kWh = k] : k \in {1}}
    \cup {[NoCall EXCEPT !.op = "setOfferStatus", !.id = i, !.active = FALSE] : i \in OfferIds}
    \cup {[NoCall EXCEPT !.op = "updateOffer", !.id = i, !.price = 1, !.kWh = k] :
            i \in OfferIds, k \in {0, 2}}
    \cup {[NoCall EXCEPT !.op = "buyEnergy", !.id = i, !.kWh = 1, !.factor = 10000,
                         !.value = 1, !.accept = a] : i \in OfferIds, a \in BOOLEAN}

(* The offer ids a caller tries: every offer created so far and the first  *)
(* id never created (all ids never created hold the same empty record).    *)
TriedIds == 0..nextOfferId

Hooks(m) ==
    {Accept, Reject}
    \cup IF Len(m.events) + 2 <= MaxEvents
         THEN {[re |-> c, ok |-> b] :
                 c \in {x \in NestedCalls : x.op = "createOffer" => m.nextOfferId < MaxOffers},
                 b \in BOOLEAN}
         ELSE {}

Commit(call, r) ==
    /\ offers' = r.m.offers
    /\ nextOfferId' = r.m.nextOfferId
    /\ funds' = r.m.funds
    /\ events' = r.m.events
    /\ last' = [call EXCEPT !.res = r.res, !.nres = r.nres]
    /\ pre' = Snapshot
    /\ UNCHANGED tokenVars
    /\ UNCHANGED simVars

CommitToken(call, r) ==
    /\ balances' = r.m.balances
    /\ totalSupply' = r.m.totalSupply
    /\ tokenPrice' = r.m.tokenPrice
    /\ lastCloudPct' = r.m.lastCloudPct
    /\ events' = r.m.events
    /\ last' = [call EXCEPT !.res = r.res, !.nres = r.nres]
    /\ pre' = Snapshot
    /\ UNCHANGED marketVars
    /\ UNCHANGED simVars

(* A call is taken from a state a successful call (or the deployment) left. *)
(* A reverted call leaves the chain exactly where it was, so the calls that *)
(* may follow it are the calls that may follow the state before it: taking  *)
(* them from there reaches the same states, each once.  The log is capped.  *)
Ready == Len(events) < MaxEvents /\ last.res = "ok"

CreateOffer ==
    /\ Ready
    /\ nextOfferId < MaxOffers
    /\ \E sender \in Users, p \in Prices, k \in NewKWhs :
         Commit([NoLast EXCEPT !.op = "createOffer", !.sender = sender, !.price = p, !.kWh = k],
                createOffer(Market, sender, p, k))

SetOfferStatus ==
    /\ Ready
    /\ \E sender \in Users, id \in TriedIds, a \in BOOLEAN :
         Commit([NoLast EXCEPT !.op = "setOfferStatus", !.sender = sender, !.id = id, !.active = a],
                setOfferStatus(Market, sender, id, a))

UpdateOffer ==
    /\ Ready
    /\ \E sender \in Users, id \in TriedIds, p \in Prices, k \in NewKWhs :
         Commit([NoLast EXCEPT !.op = "updateOffer", !.sender = sender, !.id = id,
                               !.price = p, !.kWh = k],
                updateOffer(Market, sender, id, p, k))

BuyEnergy ==
    /\ Ready
    /\ \E sender \in Users, id \in TriedIds, k \in BuyKWhs, f \in Factors, w \in Weathers,
          v \in Values :
         /\ v <= funds[sender]
         /\ LET call == [NoLast EXCEPT !.op = "buyEnergy", !.sender = sender, !.id = id,
                                       !.kWh = k, !.factor = f, !.w = w, !.value = v]
                try == buyEnergy(Market, sender, id, k, f, w, v, Accept)
            IN  IF try.res # "ok" THEN Commit(call, try)
                ELSE \E h \in Hooks(Market) :
                       Commit([call EXCEPT !.hook = h], buyEnergy(Market, sender, id, k, f, w, v, h))

MintEnergy ==
    /\ Ready
    /\ \E sender \in Users, f \in MintFactors, c \in Clouds :
         CommitToken([NoLast EXCEPT !.op = "mintEnergy", !.sender = sender, !.factor = f,
                                    !.clouds = c],
                     mintEnergy(Token, sender, f, c))

UseEnergy ==
    /\ Ready
    /\ \E sender \in Users, a \in Amounts :
         CommitToken([NoLast EXCEPT !.op = "useEnergy", !.sender = sender, !.amount = a],
                     useEnergy(Token, sender, a))

Next == CreateOffer \/ SetOfferStatus \/ UpdateOffer \/ BuyEnergy \/ MintEnergy \/ UseEnergy

Spec == Init /\ [][Next]_vars

----------------------------------------------------------------------------
(* Properties.  `pre` is the state before the last call, `last` the call.  *)

IsBuy == last.op = "buyEnergy"
BuyOk == IsBuy /\ last.res = "ok"
PreOffer == pre.m.offers[last.id]
OfferExists == last.id < pre.m.nextOfferId
Floor10000(x) == x \div 10000

(* The checks of buyEnergy that come before the payment check. *)
BuyReachesPayment ==
    /\ IsBuy
    /\ PreOffer.active
    /\ last.kWh > 0 /\ last.kWh <= PreOffer.availableKWh
    /\ last.factor > 0
    /\ ~MulOverflows(PreOffer.basePriceWeiPerKWh, last.kWh)
    /\ ~MulOverflows(PreOffer.basePriceWeiPerKWh * last.kWh, last.factor)

(* C1: every successful buyEnergy leaves the offer's availableKWh at its   *)
(* value before the call minus kWh, and no availableKWh is ever negative.  *)
C1_AvailableDecrement ==
    /\ BuyOk => offers[last.id].availableKWh = PreOffer.availableKWh - last.kWh
    /\ \A i \in OfferIds : offers[i].availableKWh >= 0

(* C2: buyEnergy succeeds only when the value sent equals                  *)
(* floor((price * kWh) * factor / 10000), with the price the offer had     *)
(* when the call was made; a purchase that passes the earlier checks with  *)
(* any other value fails with "wrong value" and changes nothing.           *)
C2_ExactPayment ==
    IsBuy =>
      LET cost == Floor10000((PreOffer.basePriceWeiPerKWh * last.kWh) * last.factor) IN
      /\ (last.res = "ok" => last.value = cost)
      /\ (BuyReachesPayment /\ last.value # cost =>
            /\ last.res = "wrong value"
            /\ offers = pre.m.offers
            /\ funds = pre.m.funds
            /\ events = pre.m.events)
      /\ (BuyReachesPayment /\ last.value = cost => last.res \in {"ok", "pay failed"})

(* C2 witness: a purchase whose exact cost is not an integer (1.5), paid   *)
(* with floor + 1, was refused.                                            *)
C2_Witness ==
    /\ BuyReachesPayment
    /\ ((PreOffer.basePriceWeiPerKWh * last.kWh) * last.factor) % 10000 # 0
    /\ last.value = Floor10000((PreOffer.basePriceWeiPerKWh * last.kWh) * last.factor) + 1
    /\ last.res = "wrong value"

(* C3: when the seller rejects the payment, buyEnergy fails with           *)
(* "pay failed" and nothing of the call stays: offers, funds, the offer    *)
(* counter and the event log are as before the call.                       *)
C3_TransferFailedRollsBack ==
    /\ (IsBuy /\ ~last.hook.ok) =>
          /\ last.res = "pay failed"
          /\ offers = pre.m.offers
          /\ nextOfferId = pre.m.nextOfferId
          /\ funds = pre.m.funds
          /\ events = pre.m.events
    /\ last.res = "pay failed" => IsBuy /\ ~last.hook.ok /\ BuyReachesPayment

(* C3 witness: the seller rejected the payment after calling back into the *)
(* market with a call that had succeeded.                                  *)
C3_Witness ==
    /\ last.res = "pay failed"
    /\ last.hook.re.op = "updateOffer" /\ last.hook.re.id = last.id /\ last.hook.re.kWh > 0
    /\ last.kWh > 0
    /\ PreOffer.availableKWh = offers[last.id].availableKWh

(* C4: a successful buyEnergy is one indivisible unit: its whole effect on *)
(* the ledger and the log is its own decrement, its own payment and its    *)
(* own EnergyPurchased record.                                             *)
C4_BuyIsIndivisible ==
    BuyOk =>
      /\ events = Append(pre.m.events,
                         EnergyPurchased(last.id, last.sender, last.kWh, last.value,
                                         last.factor, last.w))
      /\ offers = [pre.m.offers EXCEPT ![last.id].availableKWh = @ - last.kWh]
      /\ nextOfferId = pre.m.nextOfferId

RECURSIVE SumOver(_, _)
SumOver(f, S) == IF S = {} THEN 0
                 ELSE LET x == CHOOSE y \in S : TRUE IN f[x] + SumOver(f, S \ {x})

(* C5: totalSupply is the sum of all balances and no balance is negative,  *)
(* in every reachable state.                                               *)
C5_SupplyIsSumOfBalances ==
    /\ totalSupply = SumOver(balances, Users)
    /\ \A u \in Users : balances[u] >= 0

(* C5 witness: two holders, and a burn has just succeeded. *)
C5_Witness ==
    /\ last.op = "useEnergy" /\ last.res = "ok" /\ last.amount > 0
    /\ \A u \in Users : balances[u] > 0

(* C6: the token price is strictly positive in every reachable state. *)
C6_PricePositive == tokenPrice > 0

(* C7: updateOffer or setOfferStatus on an existing offer by a caller who  *)
(* is not its seller fails with "not seller", leaves every offer as it was *)
(* and logs nothing.                                                       *)
C7_NonOwnerRefused ==
    (/\ last.op \in {"updateOffer", "setOfferStatus"}
     /\ OfferExists
     /\ last.sender # PreOffer.seller) =>
       /\ last.res = "not seller"
       /\ offers = pre.m.offers
       /\ events = pre.m.events

(* C7 witness: an update with valid values, refused only for its caller. *)
C7_Witness ==
    /\ last.op = "updateOffer"
    /\ OfferExists
    /\ last.sender # PreOffer.seller
    /\ last.price > 0 /\ last.kWh > 0
    /\ last.kWh # PreOffer.availableKWh
    /\ last.res = "not seller"

(* C8: a call that fails leaves the whole state as it was before the call: *)
(* offers, offer counter, funds, balances, supply, price, cloud percent    *)
(* and the event log.                                                      *)
C8_FailureChangesNothing ==
    last.res # "ok" => Snapshot = pre

(* C8 witness: useEnergy failed after its burn (division by a zero supply). *)
C8_Witness ==
    /\ last.op = "useEnergy"
    /\ last.res = "panic"

(* C9 as stated: buying more than an offer has always fails with           *)
(* "invalid kWh", whatever the state of the offer, and leaves availableKWh *)
(* unchanged.                                                              *)
C9_AlwaysInvalidKWh ==
    (IsBuy /\ OfferExists /\ last.kWh > PreOffer.availableKWh) =>
       /\ last.res = "invalid kWh"
       /\ offers[last.id].availableKWh = PreOffer.availableKWh

(* C9 amended: buying more than an offer has always fails and leaves       *)
(* availableKWh unchanged; the failure is "invalid kWh" when the offer is  *)
(* active and "inactive" when it is not.                                   *)
C9_OverbuyFails ==
    (IsBuy /\ OfferExists /\ last.kWh > PreOffer.availableKWh) =>
       /\ last.res = (IF PreOffer.active THEN "invalid kWh" ELSE "inactive")
       /\ offers[last.id].availableKWh = PreOffer.availableKWh

(* C9 witness: an active offer, asked for more than it has. *)
C9_Witness ==
    /\ IsBuy /\ OfferExists /\ PreOffer.active
    /\ PreOffer.availableKWh > 0
    /\ last.kWh > PreOffer.availableKWh
    /\ last.res = "invalid kWh"

Lowered(i) == offers[i].availableKWh < pre.m.offers[i].availableKWh

(* C10 as stated: availableKWh of an offer becomes smaller only in a       *)
(* successful buyEnergy on that offer.                                     *)
C10_OnlyPurchasesLower ==
    \A i \in OfferIds : Lowered(i) => BuyOk /\ last.id = i

(* C10 amended: availableKWh of an offer becomes smaller only by a         *)
(* successful buyEnergy on that offer or by a successful updateOffer of    *)
(* its seller with a smaller quantity, called directly or from within the  *)
(* payment of a successful purchase; createOffer and setOfferStatus never  *)
(* lower it.                                                               *)
C10_PurchasesAndUpdatesLower ==
    \A i \in OfferIds : Lowered(i) =>
       /\ last.res = "ok"
       /\ \/ IsBuy /\ last.id = i
          \/ /\ last.op = "updateOffer" /\ last.id = i
             /\ last.sender = pre.m.offers[i].seller
             /\ last.kWh = offers[i].availableKWh
          \/ /\ IsBuy /\ last.nres = "ok"
             /\ last.hook.re.op \in {"buyEnergy", "updateOffer"}
             /\ last.hook.re.id = i

(* C10 witness: the seller's updateOffer lowered the quantity. *)
C10_Witness ==
    /\ last.op = "updateOffer" /\ last.res = "ok"
    /\ Lowered(last.id)

----------------------------------------------------------------------------
(* Token properties *)

IsMint == last.op = "mintEnergy"
IsUse == last.op = "useEnergy"
MintOk == IsMint /\ last.res = "ok"
UseOk == IsUse /\ last.res = "ok"
Others == Users \ {last.sender}

(* C11 as stated: useEnergy(amount) with amount <= the caller's balance    *)
(* always completes; it fails only when amount > balance.                  *)
C11_UseWithinBalanceCompletes ==
    IsUse => (last.res = "ok" <=> last.amount <= pre.t.balances[last.sender])

C13_MintEffect ==
    MintOk =>
      LET minted == (100 * last.factor) \div 10000 IN
      /\ balances[last.sender] = pre.t.balances[last.sender] + minted
      /\ totalSupply = pre.t.totalSupply + minted
      /\ tokenPrice = (pre.t.tokenPrice * 10000) \div last.factor
      /\ lastCloudPct = last.clouds
      /\ \A u \in Others : balances[u] = pre.t.balances[u]
      /\ (last.factor > 10000 => tokenPrice <= pre.t.tokenPrice)
      /\ (last.factor < 10000 => tokenPrice >= pre.t.tokenPrice)
      /\ (last.factor = 20000 /\ pre.t.tokenPrice = 100 => minted = 200 /\ tokenPrice = 50)

(* C13 witness: factor 20000 at price 100 minted 200 and left price 50. *)
C13_Witness ==
    /\ MintOk /\ last.factor = 20000 /\ pre.t.tokenPrice = 100
    /\ balances[last.sender] = pre.t.balances[last.sender] + 200
    /\ tokenPrice = 50

(* C14: a successful useEnergy(amount) takes amount off the caller's       *)
(* balance and off totalSupply, sets the price to                          *)
(* floor(price * (10000 + floor(pct / 2)) / 10000) with                    *)
(* pct = floor(amount * 10000 / supply before the burn), and leaves        *)
(* lastCloudPct and the other balances.                                    *)
C14_UseEffect ==
    UseOk =>
      LET pct == (last.amount * 10000) \div pre.t.totalSupply IN
      /\ balances[last.sender] = pre.t.balances[last.sender] - last.amount
      /\ totalSupply = pre.t.totalSupply - last.amount
      /\ tokenPrice = (pre.t.tokenPrice * (10000 + pct \div 2)) \div 10000
      /\ lastCloudPct = pre.t.lastCloudPct
      /\ \A u \in Others : balances[u] = pre.t.balances[u]
      /\ (last.amount = 50 /\ pre.t.totalSupply = 200 /\ pre.t.tokenPrice = 50 =>
            pct = 2500 /\ tokenPrice = 56)

(* C14 witness: amount 50 of a supply of 200 at price 50 left price 56. *)
C14_Witness ==
    /\ UseOk /\ last.amount = 50 /\ pre.t.totalSupply = 200 /\ pre.t.tokenPrice = 50
    /\ tokenPrice = 56 /\ totalSupply = 150

----------------------------------------------------------------------------
(* Offer identifiers and the active flag *)

NestedOk(op) == IsBuy /\ last.res = "ok" /\ last.nres = "ok" /\ last.hook.re.op = op
CreatedEvents == SelectSeq(events, LAMBDA e : e.type = "OfferCreated")

(* C15 as stated: buyEnergy, setOfferStatus and updateOffer on an offer id *)
(* that was never created fail with a not-found error of their own and     *)
(* change no state.                                                        *)
C15_UnknownIdNotFound ==
    (last.op \in {"buyEnergy", "setOfferStatus", "updateOffer"} /\ ~OfferExists) =>
       /\ last.res = "not found"
       /\ Snapshot = pre

(* C16: offer ids are sequential and never reused.  A successful           *)
(* createOffer stores, at the id the counter held, an active offer of the  *)
(* caller with the given price and quantity, where no offer was, advances  *)
(* the counter by 1 and touches no other offer; the counter never goes     *)
(* down and only a createOffer (called directly or from within the payment *)
(* of a purchase) moves it; the k-th OfferCreated record carries id k - 1. *)
C16_SequentialIds ==
    /\ nextOfferId >= pre.m.nextOfferId
    /\ nextOfferId # pre.m.nextOfferId =>
         /\ nextOfferId = pre.m.nextOfferId + 1
         /\ (last.op = "createOffer" /\ last.res = "ok") \/ NestedOk("createOffer")
    /\ (last.op = "createOffer" /\ last.res = "ok") =>
         /\ nextOfferId = pre.m.nextOfferId + 1
         /\ pre.m.offers[pre.m.nextOfferId] = EmptyOffer
         /\ offers[pre.m.nextOfferId] = [seller |-> last.sender,
                                         basePriceWeiPerKWh |-> last.price,
                                         availableKWh |-> last.kWh,
                                         active |-> TRUE]
         /\ \A i \in OfferIds \ {pre.m.nextOfferId} : offers[i] = pre.m.offers[i]
    /\ Len(CreatedEvents) = nextOfferId
    /\ \A k \in 1..Len(CreatedEvents) : CreatedEvents[k].offerId = k - 1
    /\ \A i \in OfferIds : (i < nextOfferId) <=> (offers[i].seller # ZERO)

(* C16 witness: a second offer has just been created, next to the first. *)
C16_Witness ==
    /\ last.op = "createOffer" /\ last.res = "ok"
    /\ nextOfferId = 2
    /\ offers[0].seller # ZERO /\ offers[1].seller = last.sender

(* C17: no buyEnergy succeeds on an offer that is not active: on an        *)
(* existing inactive offer it fails with "inactive"; and the active flag   *)
(* of an existing offer changes only by a successful setOfferStatus of its *)
(* seller (called directly or from within the payment of a purchase),      *)
(* never by updateOffer or by a purchase itself.                           *)
C17_InactiveOfferNotSold ==
    /\ BuyOk => PreOffer.active
    /\ (IsBuy /\ OfferExists /\ ~PreOffer.active) => last.res = "inactive"
    /\ NestedOk("buyEnergy") => pre.m.offers[last.hook.re.id].active
    /\ \A i \in OfferIds :
         (i < pre.m.nextOfferId /\ offers[i].active # pre.m.offers[i].active) =>
            \/ /\ last.op = "setOfferStatus" /\ last.res = "ok" /\ last.id = i
               /\ last.sender = pre.m.offers[i].seller
               /\ offers[i].active = last.active
            \/ /\ NestedOk("setOfferStatus") /\ last.hook.re.id = i
               /\ PreOffer.seller = pre.m.offers[i].seller
               /\ offers[i].active = last.hook.re.active

(* C17 witness: a purchase that was valid but for the flag (quantity in    *)
(* stock, exact payment) was refused on a deactivated offer.              *)
C17_Witness ==
    /\ IsBuy /\ OfferExists /\ ~PreOffer.active
    /\ last.kWh > 0 /\ last.kWh <= PreOffer.availableKWh /\ last.factor > 0
    /\ ~MulOverflows(PreOffer.basePriceWeiPerKWh * last.kWh, last.factor)
    /\ last.value = Floor10000((PreOffer.basePriceWeiPerKWh * last.kWh) * last.factor)
    /\ last.res = "inactive"

----------------------------------------------------------------------------
(* The event log *)

PreLog == pre.m.events
LastEvent == events[Len(events)]

(* The record a successful call writes for itself. *)
OwnRecord ==
    CASE last.op = "createOffer" ->
           OfferCreated(pre.m.nextOfferId, last.sender, last.price, last.kWh)
      [] last.op = "setOfferStatus" ->
           OfferUpdated(last.id, PreOffer.basePriceWeiPerKWh, PreOffer.availableKWh, last.active)
      [] last.op = "updateOffer" ->
           OfferUpdated(last.id, last.price, last.kWh, PreOffer.active)
      [] last.op = "buyEnergy" ->
           EnergyPurchased(last.id, last.sender, last.kWh,
                           Floor10000((PreOffer.basePriceWeiPerKWh * last.kWh) * last.factor),
                           last.factor, last.w)
      [] last.op = "mintEnergy" ->
           EnergyMinted(last.sender, (100 * last.factor) \div 10000, last.factor, last.clouds,
                        tokenPrice)
      [] last.op = "useEnergy" -> EnergyUsed(last.sender, last.amount, tokenPrice)
      [] OTHER -> NoEvent

RecordTypeOf(op) ==
    CASE op = "createOffer" -> "OfferCreated"
      [] op \in {"setOfferStatus", "updateOffer"} -> "OfferUpdated"
      [] op = "buyEnergy" -> "EnergyPurchased"
      [] OTHER -> "none"

Ledger == [offers |-> offers, nextOfferId |-> nextOfferId, balances |-> balances,
           totalSupply |-> totalSupply, tokenPrice |-> tokenPrice,
           lastCloudPct |-> lastCloudPct]

InitialLedger(p0) == [offers |-> [i \in OfferIds |-> EmptyOffer], nextOfferId |-> 0,
                      balances |-> [u \in Users |-> 0], totalSupply |-> 0,
                      tokenPrice |-> p0, lastCloudPct |-> 0]

ApplyRecord(st, e) ==
    CASE e.type = "OfferCreated" ->
           [st EXCEPT !.offers[e.offerId] = [seller |-> e.who, basePriceWeiPerKWh |-> e.price,
                                             availableKWh |-> e.qty, active |-> TRUE],
                      !.nextOfferId = e.offerId + 1]
      [] e.type = "OfferUpdated" ->
           [st EXCEPT !.offers[e.offerId].basePriceWeiPerKWh = e.price,
                      !.offers[e.offerId].availableKWh = e.qty,
                      !.offers[e.offerId].active = e.active]
      [] e.type = "EnergyPurchased" ->
           [st EXCEPT !.offers[e.offerId].availableKWh = @ - e.qty]
      [] e.type = "EnergyMinted" ->
           [st EXCEPT !.balances[e.who] = @ + e.qty, !.totalSupply = @ + e.qty,
                      !.tokenPrice = e.price, !.lastCloudPct = e.clouds]
      [] e.type = "EnergyUsed" ->
           [st EXCEPT !.balances[e.who] = @ - e.qty, !.totalSupply = @ - e.qty,
                      !.tokenPrice = e.price]
      [] OTHER -> st

RECURSIVE Replay(_, _)
Replay(st, log) == IF log = << >> THEN st ELSE Replay(ApplyRecord(st, Head(log)), Tail(log))

(* C19: replaying the log, in log order, from the state at deployment      *)
(* gives the current offers, offer counter, balances, supply, price and    *)
(* cloud percent.                                                          *)
C19_ReplayYieldsState ==
    \E p0 \in InitialPrices : Replay(InitialLedger(p0), events) = Ledger

(* The products of the cost, decided without forming them. *)
Fits(a, b) == b = 0 \/ a <= UintMax \div b
CostFits == /\ Fits(PreOffer.basePriceWeiPerKWh, last.kWh)
            /\ Fits(PreOffer.basePriceWeiPerKWh * last.kWh, last.factor)

(* C20: the cost is never taken from a product that does not fit in a      *)
(* word: a purchase that passes the checks on the offer, the quantity and  *)
(* the factor and whose price * kWh or price * kWh * factor exceeds the    *)
(* word fails and leaves the whole state unchanged, and a purchase that    *)
(* succeeds paid the cost of the full product.                             *)
C20_NoSilentOverflow ==
    /\ (/\ IsBuy /\ PreOffer.active
        /\ last.kWh > 0 /\ last.kWh <= PreOffer.availableKWh
        /\ last.factor > 0
        /\ ~CostFits) =>
          /\ last.res = "panic"
          /\ Snapshot = pre
    /\ (IsBuy /\ ~CostFits) =>
          /\ last.res # "ok"
          /\ Snapshot = pre
    /\ BuyOk =>
          /\ CostFits
          /\ last.value * 10000 <= (PreOffer.basePriceWeiPerKWh * last.kWh) * last.factor
          /\ (PreOffer.basePriceWeiPerKWh * last.kWh) * last.factor < (last.value + 1) * 10000

(* C20 witness: a purchase whose price * kWh fits and whose                *)
(* price * kWh * factor does not was refused.                              *)
C20_Witness ==
    /\ IsBuy /\ PreOffer.active
    /\ last.kWh > 0 /\ last.kWh <= PreOffer.availableKWh
    /\ Fits(PreOffer.basePriceWeiPerKWh, last.kWh)
    /\ ~Fits(PreOffer.basePriceWeiPerKWh * last.kWh, last.factor)
    /\ last.res = "panic"

----------------------------------------------------------------------------
(* Arguments of createOffer and updateOffer *)

IsCreate == last.op = "createOffer"
IsUpdate == last.op = "updateOffer"
BadOfferArgs == last.price = 0 \/ last.kWh = 0
ArgRefusal == IF last.price = 0 THEN "price>0" ELSE "kWh>0"
Created == {i \in OfferIds : i < nextOfferId}
BoughtNow(i) == \/ BuyOk /\ last.id = i
                \/ NestedOk("buyEnergy") /\ last.hook.re.id = i

(* C21, as stated: createOffer and updateOffer (on an offer that exists)   *)
(* with a price or a quantity of 0 fail with the invalid-argument failure  *)
(* and change nothing.                                                     *)
C21_BadArgsAlwaysInvalidArgument ==
    ((IsCreate \/ (IsUpdate /\ OfferExists)) /\ BadOfferArgs) =>
        /\ last.res = ArgRefusal
        /\ Snapshot = pre

(* C21, amended: createOffer with a price or a quantity of 0 fails with    *)
(* the invalid-argument failure; updateOffer with such values fails with   *)
(* it when the caller is the offer's seller and with "not seller" when the *)
(* caller is anyone else; both change nothing.  Every created offer has a  *)
(* price > 0, and the quantity of a created offer is 0 only if it was 0    *)
(* before the call or a purchase of that offer succeeded in the call.      *)
C21_BadArgsRefused ==
    /\ (IsCreate /\ BadOfferArgs) =>
          /\ last.res = ArgRefusal
          /\ Snapshot = pre
    /\ (IsUpdate /\ BadOfferArgs) =>
          /\ last.res = IF last.sender = PreOffer.seller THEN ArgRefusal ELSE "not seller"
          /\ Snapshot = pre
    /\ \A i \in Created :
          /\ offers[i].basePriceWeiPerKWh > 0
          /\ offers[i].availableKWh = 0 =>
                \/ i < pre.m.nextOfferId /\ pre.m.offers[i].availableKWh = 0
                \/ BoughtNow(i)

(* C21 witness: the seller's update to quantity 0 was refused, and the     *)
(* offer kept its positive price and quantity.                             *)
C21_Witness ==
    /\ IsUpdate /\ OfferExists /\ last.sender = PreOffer.seller
    /\ last.price > 0 /\ last.kWh = 0
    /\ last.res = "kWh>0"
    /\ offers[last.id].availableKWh > 0

----------------------------------------------------------------------------
(* Arguments of mintEnergy *)

(* C22: mintEnergy with a factor of 0 or a cloud percentage above 100      *)
(* fails with the invalid-argument failure and leaves balances, supply,    *)
(* price and last cloud percentage (and everything else) unchanged; the    *)
(* last cloud percentage is at most 100 in every reachable state.          *)
C22_BadMintArgsRefused ==
    /\ (IsMint /\ (last.factor = 0 \/ last.clouds > 100)) =>
          /\ last.res = IF last.factor = 0 THEN "factor>0" ELSE "clouds<=100"
          /\ Token = pre.t
          /\ Snapshot = pre
    /\ lastCloudPct <= 100

(* C22 witness: after a mint at 100 percent clouds, a mint at 101 percent  *)
(* with a valid factor was refused.                                        *)
C22_Witness ==
    /\ IsMint /\ last.factor > 0 /\ last.clouds = 101
    /\ last.res = "clouds<=100"
    /\ pre.t.lastCloudPct = 100 /\ lastCloudPct = 100
    /\ totalSupply > 0

----------------------------------------------------------------------------
(* Reading an offer back (the getter of the public mapping `offers`) *)

(* C23: right after a successful createOffer the new offer reads seller =  *)
(* caller, the given price, availableKWh = the given quantity and active;  *)
(* right after a successful updateOffer the offer reads the new price and  *)
(* quantity, with seller and active as they were before the update.        *)
C23_ReadBack ==
    /\ (IsCreate /\ last.res = "ok") =>
          offers[pre.m.nextOfferId] = [seller |-> last.sender,
                                       basePriceWeiPerKWh |-> last.price,
                                       availableKWh |-> last.kWh,
                                       active |-> TRUE]
    /\ (IsUpdate /\ last.res = "ok") =>
          /\ offers[last.id].basePriceWeiPerKWh = last.price
          /\ offers[last.id].availableKWh = last.kWh
          /\ offers[last.id].seller = PreOffer.seller
          /\ offers[last.id].active = PreOffer.active

(* C23 witness: an update changed both the price and the quantity of an    *)
(* offer that was off sale, and the offer is still off sale.               *)
C23_Witness ==
    /\ IsUpdate /\ last.res = "ok"
    /\ ~PreOffer.active /\ ~offers[last.id].active
    /\ PreOffer.basePriceWeiPerKWh # last.price
    /\ PreOffer.availableKWh # last.kWh
    /\ offers[last.id].basePriceWeiPerKWh = last.price

----------------------------------------------------------------------------
(* The seller of an offer *)

(* C24: the seller of an offer is fixed when the offer is created: every   *)
(* offer that existed before a call still exists after it with the same    *)
(* seller, whatever the call was, and the seller of the k-th created offer *)
(* is the caller named in the k-th OfferCreated record.                    *)
C24_SellerFixed ==
    /\ \A i \in OfferIds :
          i < pre.m.nextOfferId =>
             /\ i < nextOfferId
             /\ offers[i].seller = pre.m.offers[i].seller
             /\ offers[i].seller \in Users
    /\ \A k \in 1..Len(CreatedEvents) :
          /\ CreatedEvents[k].offerId \in Created
          /\ offers[CreatedEvents[k].offerId].seller = CreatedEvents[k].who

(* C24 witness: another user bought the whole stock of an offer, during    *)
(* the payment the seller took the offer off sale, and the offer is still  *)
(* on record with its seller.                                              *)
C24_Witness ==
    /\ BuyOk /\ last.sender # PreOffer.seller
    /\ NestedOk("setOfferStatus") /\ last.hook.re.id = last.id
    /\ offers[last.id].availableKWh = 0 /\ ~offers[last.id].active
    /\ offers[last.id].seller = PreOffer.seller
    /\ offers[last.id].seller = CreatedEvents[last.id + 1].who

----------------------------------------------------------------------------
(* The money *)

Purchases == SelectSeq(events, LAMBDA e : e.type = "EnergyPurchased")

(* The sum of the amounts of the purchase records in `log` that `u` paid   *)
(* (PaidBy) and of those for an offer of which `u` is the seller (PaidTo).  *)
RECURSIVE PaidBy(_, _)
PaidBy(u, log) ==
    IF log = << >> THEN 0
    ELSE (IF Head(log).who = u THEN Head(log).paid ELSE 0) + PaidBy(u, Tail(log))

RECURSIVE PaidTo(_, _)
PaidTo(u, log) ==
    IF log = << >> THEN 0
    ELSE (IF offers[Head(log).offerId].seller = u THEN Head(log).paid ELSE 0)
         + PaidTo(u, Tail(log))

(* C25: the market keeps no funds.  Its balance is what it was at          *)
(* deployment after every call; a failed call leaves every balance as it   *)
(* was; a successful purchase with no purchase nested in it moves exactly  *)
(* the value sent, which is the cost, from the buyer to the seller of the  *)
(* offer; and what each user holds is the initial funds, less the amounts  *)
(* of the purchase records the user paid, plus the amounts of the purchase *)
(* records of the user's offers.                                           *)
C25_MarketKeepsNothing ==
    /\ funds[MARKET] = pre.m.funds[MARKET]
    /\ funds[MARKET] = 0
    /\ last.res # "ok" => funds = pre.m.funds
    /\ (BuyOk /\ ~NestedOk("buyEnergy")) =>
          /\ last.value = Floor10000((PreOffer.basePriceWeiPerKWh * last.kWh) * last.factor)
          /\ \A u \in Users :
                funds[u] = pre.m.funds[u]
                           + (IF u = PreOffer.seller THEN last.value ELSE 0)
                           - (IF u = last.sender THEN last.value ELSE 0)
    /\ \E f \in InitFunds :
          \A u \in Users : funds[u] = (f - PaidBy(u, Purchases)) + PaidTo(u, Purchases)

(* C25 witness: a user bought from another user's offer at a cost above 0; *)
(* the seller holds that much more, the buyer that much less, the market   *)
(* nothing.                                                                *)
C25_Witness ==
    /\ BuyOk /\ last.nres = "none"
    /\ last.value > 0 /\ last.sender # PreOffer.seller
    /\ funds[PreOffer.seller] = pre.m.funds[PreOffer.seller] + last.value
    /\ funds[last.sender] = pre.m.funds[last.sender] - last.value
    /\ funds[MARKET] = 0

----------------------------------------------------------------------------
(* The offline simulation page (unnamed/part_003).                         *)
(*                                                                         *)
(* `tokens` and `supply` are the page's state.  A handler is a closure of  *)
(* the render it was created in: what it reads as `tokens` and `supply` is *)
(* what that render saw (`seen`), while its setTokens(t => ...) and        *)
(* setSupply(s => ...) act on the state at the time they run (`s`).  A     *)
(* button runs the handler of the latest render, which saw the current     *)
(* state.  The two timers of quickDemo run the handlers of the render in   *)
(* which Quick Demo was clicked: `demo` holds what that render saw and how *)
(* far the demo has got.  Math.random() draws are choices.  price, cash,   *)
(* clouds and log are written by the handlers and never read by a guard or *)
(* an update of tokens or supply; they are left out.                       *)

(* The largest balance the model lets production reach. *)
MaxSimTokens == 100

TOKEN_PER_KWH == 10

(* A day's production in tenths of a kWh: Math.max(0.1, ...) of at most    *)
(* 8.0 kWh, to one decimal.                                                *)
Prods == {1, 20, 80}
(* Math.round(Math.random() * 40) *)
BurnDraws == {0, 1, 20, 40}
(* What the user types into the "Amount to sell" field. *)
SellAmounts == {0, 1, 20, 21, 40, 100}
(* The "Use 20 SLR" button. *)
UseAmounts == {20}

Min(a, b) == IF a < b THEN a ELSE b

SimState == [tokens |-> tokens, supply |-> supply]

mintedTokens(prod) == (prod * TOKEN_PER_KWH) \div 10

simulateProduction(s, prod) ==
    [tokens |-> s.tokens + mintedTokens(prod), supply |-> s.supply + mintedTokens(prod)]

sim_useEnergy(seen, s, burnAmount) ==
    IF burnAmount <= 0 THEN s
    ELSE IF burnAmount > seen.tokens THEN s
    ELSE [tokens |-> s.tokens - burnAmount, supply |-> s.supply - burnAmount]

sellExcess(seen, s, amount) ==
    IF amount <= 0 THEN s
    ELSE IF amount > seen.tokens THEN s
    ELSE [tokens |-> s.tokens - amount, supply |-> s.supply - amount]

SetSim(s) ==
    /\ tokens' = s.tokens
    /\ supply' = s.supply

(* Button "Simulate Production". *)
SimulateProduction ==
    /\ \E prod \in Prods :
         /\ tokens + mintedTokens(prod) <= MaxSimTokens
         /\ SetSim(simulateProduction(SimState, prod))
    /\ UNCHANGED <<demo, chainVars>>

(* Button "Use 20 SLR". *)
SimUseEnergy ==
    /\ \E burnAmount \in UseAmounts : SetSim(sim_useEnergy(SimState, SimState, burnAmount))
    /\ UNCHANGED <<demo, chainVars>>

(* Button "Sell SLR". *)
SellExcess ==
    /\ \E amount \in SellAmounts : SetSim(sellExcess(SimState, SimState, amount))
    /\ UNCHANGED <<demo, chainVars>>

(* Button "Reset" (confirmed).  It does not cancel the timers. *)
ResetSim ==
    /\ tokens' = 0
    /\ supply' = 0
    /\ UNCHANGED <<demo, chainVars>>

(* Button "Quick Demo": fetchWeather() starts; the callbacks belong to     *)
(* this render.  One demo is under way at a time.                          *)
QuickDemo ==
    /\ demo.pc = "idle"
    /\ demo' = [pc |-> "weather", tokens |-> tokens, supply |-> supply]
    /\ UNCHANGED <<tokens, supply, chainVars>>

(* fetchWeather() resolves (it catches its own errors): the first timer is *)
(* set.                                                                    *)
DemoWeather ==
    /\ demo.pc = "weather"
    /\ demo' = [demo EXCEPT !.pc = "timer1"]
    /\ UNCHANGED <<tokens, supply, chainVars>>

(* First timer: simulateProduction(), then the second timer is set. *)
DemoProduce ==
    /\ demo.pc = "timer1"
    /\ \E prod \in Prods :
         /\ tokens + mintedTokens(prod) <= MaxSimTokens
         /\ SetSim(simulateProduction(SimState, prod))
    /\ demo' = [demo EXCEPT !.pc = "timer2"]
    /\ UNCHANGED chainVars

(* Second timer: toBurn = Math.min(draw, tokens || 0) with the tokens the  *)
(* demo's render saw; if (toBurn > 0) useEnergy(toBurn), of that render.   *)
DemoBurn ==
    /\ demo.pc = "timer2"
    /\ \E draw \in BurnDraws :
         LET toBurn == Min(draw, demo.tokens) IN
         IF toBurn > 0
         THEN SetSim(sim_useEnergy([tokens |-> demo.tokens, supply |-> demo.supply],
                                   SimState, toBurn))
         ELSE UNCHANGED <<tokens, supply>>
    /\ demo' = NoDemo
    /\ UNCHANGED chainVars

SimInit == Init

SimNext ==
    \/ SimulateProduction \/ SimUseEnergy \/ SellExcess \/ ResetSim
    \/ QuickDemo \/ DemoWeather \/ DemoProduce \/ DemoBurn

SimSpec == SimInit /\ [][SimNext]_vars

(* C26: in the offline simulation, whatever the user does between the      *)
(* steps of a Quick Demo, the token balance and the supply are equal and   *)
(* neither is negative.                                                    *)
C26_TokensEqualSupplyNonNegative ==
    /\ tokens = supply
    /\ tokens >= 0
    /\ supply >= 0

====
